---- MODULE Spec2Model ----
(***************************************************************************)
(* LS-8 emulator (src/ls8/cpu.py): the CPU object's fields, the run loop   *)
(* and every handler wired in the branch table.                            *)
(*                                                                         *)
(* Python numbers are modelled as records [t, n, d]: t = "int" is the      *)
(* integer n (d = 1), t = "float" is the float n/d with d a power of two   *)
(* (the floats true division produces that binary64 holds exactly).        *)
(* An exception leaving run() is recorded in err and stops the loop.       *)
(***************************************************************************)
EXTENDS Integers, Sequences, FiniteSets, TLC

\* ------------------------------------------------------------------------
\* Bounds of the exploration
\* ------------------------------------------------------------------------
MaxNum == 70000
MaxDenExp == 2
MaxShift == 16
MaxSteps == 10

\* ------------------------------------------------------------------------
\* Opcodes and flag masks
\* ------------------------------------------------------------------------
HLT == 1
LDI == 130
PRN == 71
MUL == 162
PSH == 69
POP == 70
CALL == 80
RET == 17
ADD == 160
AND == 168
CMP == 167
DEC == 102
DIV == 163
INC == 101
IRET == 19
JEQ == 85
JLE == 89
JLT == 88
JMP == 84
JNE == 86
LD == 131
OR == 170
PRA == 72
SHL == 172
ST == 132
SUB == 161
XOR == 171

LT == 4
GT == 2
EQ == 1

RamSize == 256
NumRegs == 8
SP == 7
StackInit == 244
FlagClearMask == 286330880

\* ------------------------------------------------------------------------
\* Python numbers
\* ------------------------------------------------------------------------
I(k) == [t |-> "int", n |-> k, d |-> 1]
Unbound == [t |-> "unbound", n |-> 0, d |-> 1]
None == [t |-> "None", n |-> 0, d |-> 1]

IsInt(v) == v.t = "int"
IsFloat(v) == v.t = "float"

Abs(k) == IF k < 0 THEN -k ELSE k

RECURSIVE Pow2(_)
Pow2(e) == IF e <= 0 THEN 1 ELSE 2 * Pow2(e - 1)

RECURSIVE Gcd(_, _)
Gcd(a, b) == IF b = 0 THEN a ELSE Gcd(b, a % b)

IsPow2(k) == \E e \in 0..MaxDenExp : k = Pow2(e)

\* the fraction num/den (den # 0) in lowest terms with a positive denominator
Reduce(num, den) ==
    LET g == Gcd(Abs(num), Abs(den))
        s == IF den < 0 THEN -1 ELSE 1
    IN  [n |-> s * (num \div g), d |-> s * (den \div g)]

\* a number the exploration keeps: numerator within MaxNum, and a float
\* denominator that is a power of two up to 2^MaxDenExp
InBounds(q) == Abs(q.n) <= MaxNum /\ IsPow2(q.d)

Mk(isf, q) == [t |-> IF isf THEN "float" ELSE "int", n |-> q.n, d |-> q.d]

\* x + y, x - y, x * y, x / y of Python, exact on the numbers kept
PyAdd(x, y) == Mk(IsFloat(x) \/ IsFloat(y), Reduce(x.n * y.d + y.n * x.d, x.d * y.d))
PySub(x, y) == Mk(IsFloat(x) \/ IsFloat(y), Reduce(x.n * y.d - y.n * x.d, x.d * y.d))
PyMul(x, y) == Mk(IsFloat(x) \/ IsFloat(y), Reduce(x.n * y.n, x.d * y.d))
PyTrueDiv(x, y) == Mk(TRUE, Reduce(x.n * y.d, x.d * y.n))

\* the product stays within MaxNum (tested without computing it)
MulInBounds(x, y) ==
    \/ x.n = 0
    \/ y.n = 0
    \/ Abs(x.n) <= MaxNum \div Abs(y.n)

\* IEEE negative zero is not among the floats kept
MulNegZero(x, y) ==
    /\ IsFloat(x) \/ IsFloat(y)
    /\ \/ x.n = 0 /\ y.n < 0
       \/ y.n = 0 /\ x.n < 0
DivNegZero(x, y) == x.n = 0 /\ y.n < 0

PyLess(x, y) == x.n * y.d < y.n * x.d
PyGreater(x, y) == x.n * y.d > y.n * x.d

\* bitwise operators of Python integers (two's complement, unbounded)
RECURSIVE BitAnd(_, _)
BitAnd(a, b) ==
    IF a = 0 \/ b = 0 THEN 0
    ELSE IF a = -1 THEN b
    ELSE IF b = -1 THEN a
    ELSE (a % 2) * (b % 2) + 2 * BitAnd(a \div 2, b \div 2)

RECURSIVE BitOr(_, _)
BitOr(a, b) ==
    IF a = 0 THEN b
    ELSE IF b = 0 THEN a
    ELSE IF a = -1 \/ b = -1 THEN -1
    ELSE (IF a % 2 = 1 \/ b % 2 = 1 THEN 1 ELSE 0) + 2 * BitOr(a \div 2, b \div 2)

RECURSIVE BitXor(_, _)
BitXor(a, b) ==
    IF a = 0 THEN b
    ELSE IF b = 0 THEN a
    ELSE IF a = -1 THEN -b - 1
    ELSE IF b = -1 THEN -a - 1
    ELSE (IF a % 2 = b % 2 THEN 0 ELSE 1) + 2 * BitXor(a \div 2, b \div 2)

\* ------------------------------------------------------------------------
\* Text written to standard output
\* ------------------------------------------------------------------------
Digit(k) == CASE k = 0 -> "0" [] k = 1 -> "1" [] k = 2 -> "2" [] k = 3 -> "3"
              [] k = 4 -> "4" [] k = 5 -> "5" [] k = 6 -> "6" [] k = 7 -> "7"
              [] k = 8 -> "8" [] k = 9 -> "9" [] k = 10 -> "a" [] k = 11 -> "b"
              [] k = 12 -> "c" [] k = 13 -> "d" [] k = 14 -> "e" [] k = 15 -> "f"

RECURSIVE Digits(_, _)
Digits(k, base) ==
    IF k < base THEN Digit(k) ELSE Digits(k \div base, base) \o Digit(k % base)

\* the fractional part r/d (0 <= r < d) in decimal
RECURSIVE FracDigits(_, _)
FracDigits(r, d) ==
    IF r = 0 THEN ""
    ELSE Digit((r * 10) \div d) \o FracDigits((r * 10) % d, d)

\* str(v), as print(v) writes it
PyStr(v) ==
    LET sign == IF v.n < 0 THEN "-" ELSE ""
        m == Abs(v.n)
    IN  IF IsInt(v) THEN sign \o Digits(m, 10)
        ELSE sign \o Digits(m \div v.d, 10) \o "."
                  \o (IF m % v.d = 0 THEN "0" ELSE FracDigits(m % v.d, v.d))

\* hex(k) of a Python integer
PyHex(k) == (IF k < 0 THEN "-0x" ELSE "0x") \o Digits(Abs(k), 16)

\* ------------------------------------------------------------------------
\* State
\* ------------------------------------------------------------------------
VARIABLES
    pc,         \* self.pc
    ram,        \* self.ram, 256 cells: the integer in each cell
    ramf,       \* self.ram: the cells that hold a float, with the float
    reg,        \* self.reg, 8 registers
    halted,     \* self.halted
    setsPC,     \* self.setsPC
    fl,         \* self.fl
    ir,         \* run(): the instruction byte fetched last
    operand_a,  \* run(): the byte read at pc + 1
    operand_b,  \* run(): the byte read at pc + 2
    out,        \* the lines printed so far
    err,        \* the exception that left run(), "none" while there is none
    steps,      \* iterations of the run loop started so far
    hist,       \* pc, reg, fl, out and run()'s locals when the last iteration started
    frames      \* the pushes not yet popped, innermost last

vars == <<pc, ram, ramf, reg, halted, setsPC, fl, ir, operand_a, operand_b, out, err,
          steps, hist, frames>>

\* the CPU object together with run()'s locals, as one value
cur == [pc |-> pc, ram |-> ram, ramf |-> ramf, reg |-> reg, halted |-> halted, setsPC |-> setsPC,
        fl |-> fl, ir |-> ir, operand_a |-> operand_a, operand_b |-> operand_b,
        out |-> out, err |-> err]

Raise(s, e) == [s EXCEPT !.err = e]

\* indexing a Python list of the given size with v: the exception it raises
IndexErr(v, size) ==
    IF ~IsInt(v) THEN "TypeError"
    ELSE IF v.n < -size \/ v.n >= size THEN "IndexError"
    ELSE "none"

\* the cell a valid index names (negative indices count from the end)
At(v, size) == v.n % size

\* a value standing for a result beyond MaxNum
Huge == I(MaxNum + 1)

\* ------------------------------------------------------------------------
\* Memory
\* ------------------------------------------------------------------------
\* A cell of self.ram holds an integer (in ram) or a float (in ramf, and then
\* ram holds 0 there): the cell's content is Cell(s, k)
NoFloats == [k \in {} |-> None]

Cell(s, k) == IF k \in DOMAIN s.ramf THEN s.ramf[k] ELSE I(s.ram[k])

ram_read(s, mar) == Cell(s, At(mar, RamSize))

ram_write(s, mdr, mar) ==
    LET k == At(mar, RamSize)
    IN  IF IndexErr(mar, RamSize) # "none" THEN Raise(s, IndexErr(mar, RamSize))
        ELSE IF IsInt(mdr)
        THEN [s EXCEPT !.ram[k] = mdr.n,
                       !.ramf = [j \in DOMAIN @ \ {k} |-> @[j]]]
        ELSE [s EXCEPT !.ram[k] = 0,
                       !.ramf = [j \in DOMAIN @ \cup {k} |-> IF j = k THEN mdr ELSE @[j]]]

\* the memory after load(): the program's bytes from address 0, zero elsewhere
load(program) ==
    [address \in 0..(RamSize - 1) |->
        IF address < Len(program) THEN program[address + 1] ELSE 0]

\* ------------------------------------------------------------------------
\* ALU
\* ------------------------------------------------------------------------
ShiftLeft(x, y) ==
    IF x.n = 0 THEN I(0)
    ELSE IF y.n > MaxShift THEN Huge
    ELSE IF Abs(x.n) > MaxNum \div Pow2(y.n) THEN Huge
    ELSE I(x.n * Pow2(y.n))

\* the branches of alu(): self.reg[reg_a] <op>= self.reg[reg_b] reads
\* reg[reg_a], then reg[reg_b], then computes, then stores
alu_ADD(s, reg_a, reg_b) ==
    LET ea == IndexErr(reg_a, NumRegs)
        eb == IndexErr(reg_b, NumRegs)
        a == At(reg_a, NumRegs)
        b == At(reg_b, NumRegs)
    IN  IF ea # "none" THEN Raise(s, ea)
        ELSE IF eb # "none" THEN Raise(s, eb)
        ELSE [s EXCEPT !.reg[a] = PyAdd(s.reg[a], s.reg[b])]

alu_AND(s, reg_a, reg_b) ==
    LET ea == IndexErr(reg_a, NumRegs)
        eb == IndexErr(reg_b, NumRegs)
        a == At(reg_a, NumRegs)
        b == At(reg_b, NumRegs)
    IN  IF ea # "none" THEN Raise(s, ea)
        ELSE IF eb # "none" THEN Raise(s, eb)
        ELSE IF ~(IsInt(s.reg[a]) /\ IsInt(s.reg[b])) THEN Raise(s, "TypeError")
        ELSE [s EXCEPT !.reg[a] = I(BitAnd(s.reg[a].n, s.reg[b].n))]

alu_SUB(s, reg_a, reg_b) ==
    LET ea == IndexErr(reg_a, NumRegs)
        eb == IndexErr(reg_b, NumRegs)
        a == At(reg_a, NumRegs)
        b == At(reg_b, NumRegs)
    IN  IF ea # "none" THEN Raise(s, ea)
        ELSE IF eb # "none" THEN Raise(s, eb)
        ELSE [s EXCEPT !.reg[a] = PySub(s.reg[a], s.reg[b])]

alu_MUL(s, reg_a, reg_b) ==
    LET ea == IndexErr(reg_a, NumRegs)
        eb == IndexErr(reg_b, NumRegs)
        a == At(reg_a, NumRegs)
        b == At(reg_b, NumRegs)
    IN  IF ea # "none" THEN Raise(s, ea)
        ELSE IF eb # "none" THEN Raise(s, eb)
        ELSE IF ~MulInBounds(s.reg[a], s.reg[b]) \/ MulNegZero(s.reg[a], s.reg[b])
        THEN [s EXCEPT !.reg[a] = Huge]
        ELSE [s EXCEPT !.reg[a] = PyMul(s.reg[a], s.reg[b])]

\* a division that yields 0 for a zero divisor
alu_DIV_zeroGivesZero(s, reg_a, reg_b) ==
    LET ea == IndexErr(reg_a, NumRegs)
        eb == IndexErr(reg_b, NumRegs)
        a == At(reg_a, NumRegs)
        b == At(reg_b, NumRegs)
    IN  IF ea # "none" THEN Raise(s, ea)
        ELSE IF eb # "none" THEN Raise(s, eb)
        ELSE IF s.reg[b].n = 0 THEN [s EXCEPT !.reg[a] = I(0)]
        ELSE IF DivNegZero(s.reg[a], s.reg[b]) THEN [s EXCEPT !.reg[a] = Huge]
        ELSE [s EXCEPT !.reg[a] = PyTrueDiv(s.reg[a], s.reg[b])]

alu_DIV(s, reg_a, reg_b) ==
    LET ea == IndexErr(reg_a, NumRegs)
        eb == IndexErr(reg_b, NumRegs)
        a == At(reg_a, NumRegs)
        b == At(reg_b, NumRegs)
    IN  IF ea # "none" THEN Raise(s, ea)
        ELSE IF eb # "none" THEN Raise(s, eb)
        ELSE IF s.reg[b].n = 0 THEN Raise(s, "ZeroDivisionError")
        ELSE IF DivNegZero(s.reg[a], s.reg[b]) THEN [s EXCEPT !.reg[a] = Huge]
        ELSE [s EXCEPT !.reg[a] = PyTrueDiv(s.reg[a], s.reg[b])]

\* a decrement that also records the sign of its result in the flags
alu_DEC_setsFlags(s, reg_a, reg_b) ==
    LET ea == IndexErr(reg_a, NumRegs)
        a == At(reg_a, NumRegs)
        r == PySub(s.reg[a], I(1))
    IN  IF ea # "none" THEN Raise(s, ea)
        ELSE [s EXCEPT !.reg[a] = r,
                       !.fl = IF r.n < 0 THEN LT ELSE IF r.n > 0 THEN GT ELSE EQ]

alu_DEC(s, reg_a, reg_b) ==
    LET ea == IndexErr(reg_a, NumRegs)
        a == At(reg_a, NumRegs)
    IN  IF ea # "none" THEN Raise(s, ea)
        ELSE [s EXCEPT !.reg[a] = PySub(s.reg[a], I(1))]

alu_INC(s, reg_a, reg_b) ==
    LET ea == IndexErr(reg_a, NumRegs)
        a == At(reg_a, NumRegs)
    IN  IF ea # "none" THEN Raise(s, ea)
        ELSE [s EXCEPT !.reg[a] = PyAdd(s.reg[a], I(1))]

\* a compare that sets its flag without clearing the others
alu_CMP_keepsOldFlags(s, reg_a, reg_b) ==
    LET ea == IndexErr(reg_a, NumRegs)
        eb == IndexErr(reg_b, NumRegs)
        a == At(reg_a, NumRegs)
        b == At(reg_b, NumRegs)
    IN  IF ea # "none" THEN Raise(s, ea)
        ELSE IF eb # "none" THEN Raise(s, eb)
        ELSE IF PyLess(s.reg[a], s.reg[b]) THEN [s EXCEPT !.fl = BitOr(@, LT)]
        ELSE IF PyGreater(s.reg[a], s.reg[b]) THEN [s EXCEPT !.fl = BitOr(@, GT)]
        ELSE [s EXCEPT !.fl = BitOr(@, EQ)]

\* the flags are cleared before the registers are read
alu_CMP(s, reg_a, reg_b) ==
    LET ea == IndexErr(reg_a, NumRegs)
        eb == IndexErr(reg_b, NumRegs)
        a == At(reg_a, NumRegs)
        b == At(reg_b, NumRegs)
        s1 == [s EXCEPT !.fl = BitAnd(@, FlagClearMask)]
    IN  IF ea # "none" THEN Raise(s1, ea)
        ELSE IF eb # "none" THEN Raise(s1, eb)
        ELSE IF PyLess(s.reg[a], s.reg[b]) THEN [s1 EXCEPT !.fl = BitOr(@, LT)]
        ELSE IF PyGreater(s.reg[a], s.reg[b]) THEN [s1 EXCEPT !.fl = BitOr(@, GT)]
        ELSE [s1 EXCEPT !.fl = BitOr(@, EQ)]

alu_OR(s, reg_a, reg_b) ==
    LET ea == IndexErr(reg_a, NumRegs)
        eb == IndexErr(reg_b, NumRegs)
        a == At(reg_a, NumRegs)
        b == At(reg_b, NumRegs)
    IN  IF ea # "none" THEN Raise(s, ea)
        ELSE IF eb # "none" THEN Raise(s, eb)
        ELSE IF ~(IsInt(s.reg[a]) /\ IsInt(s.reg[b])) THEN Raise(s, "TypeError")
        ELSE [s EXCEPT !.reg[a] = I(BitOr(s.reg[a].n, s.reg[b].n))]

alu_SHL(s, reg_a, reg_b) ==
    LET ea == IndexErr(reg_a, NumRegs)
        eb == IndexErr(reg_b, NumRegs)
        a == At(reg_a, NumRegs)
        b == At(reg_b, NumRegs)
    IN  IF ea # "none" THEN Raise(s, ea)
        ELSE IF eb # "none" THEN Raise(s, eb)
        ELSE IF ~(IsInt(s.reg[a]) /\ IsInt(s.reg[b])) THEN Raise(s, "TypeError")
        ELSE IF s.reg[b].n < 0 THEN Raise(s, "ValueError")
        ELSE [s EXCEPT !.reg[a] = ShiftLeft(s.reg[a], s.reg[b])]

alu_XOR(s, reg_a, reg_b) ==
    LET ea == IndexErr(reg_a, NumRegs)
        eb == IndexErr(reg_b, NumRegs)
        a == At(reg_a, NumRegs)
        b == At(reg_b, NumRegs)
    IN  IF ea # "none" THEN Raise(s, ea)
        ELSE IF eb # "none" THEN Raise(s, eb)
        ELSE IF ~(IsInt(s.reg[a]) /\ IsInt(s.reg[b])) THEN Raise(s, "TypeError")
        ELSE [s EXCEPT !.reg[a] = I(BitXor(s.reg[a].n, s.reg[b].n))]

alu(s, op, reg_a, reg_b) ==
    IF op = "ADD" THEN alu_ADD(s, reg_a, reg_b)
    ELSE IF op = "AND" THEN alu_AND(s, reg_a, reg_b)
    ELSE IF op = "SUB" THEN alu_SUB(s, reg_a, reg_b)
    ELSE IF op = "MUL" THEN alu_MUL(s, reg_a, reg_b)
    ELSE IF op = "DIV" THEN alu_DIV(s, reg_a, reg_b)
    ELSE IF op = "DEC" THEN alu_DEC(s, reg_a, reg_b)
    ELSE IF op = "INC" THEN alu_INC(s, reg_a, reg_b)
    ELSE IF op = "CMP" THEN alu_CMP(s, reg_a, reg_b)
    ELSE IF op = "OR" THEN alu_OR(s, reg_a, reg_b)
    ELSE IF op = "SHL" THEN alu_SHL(s, reg_a, reg_b)
    ELSE IF op = "XOR" THEN alu_XOR(s, reg_a, reg_b)
    ELSE Raise(s, "Exception")

\* ------------------------------------------------------------------------
\* Handlers
\* ------------------------------------------------------------------------
\* ldi that stores the immediate in memory at the address operand_a
ldi_storesToMemory(s, a, b) == ram_write(s, b, a)

ldi(s, a, b) ==
    IF IndexErr(a, NumRegs) # "none" THEN Raise(s, IndexErr(a, NumRegs))
    ELSE [s EXCEPT !.reg[At(a, NumRegs)] = b]

\* prn that prints the register in hex
prn_printsHex(s, a, b) ==
    IF IndexErr(a, NumRegs) # "none" THEN Raise(s, IndexErr(a, NumRegs))
    ELSE [s EXCEPT !.out = Append(@, PyHex(s.reg[At(a, NumRegs)].n))]

prn(s, a, b) ==
    IF IndexErr(a, NumRegs) # "none" THEN Raise(s, IndexErr(a, NumRegs))
    ELSE [s EXCEPT !.out = Append(@, PyStr(s.reg[At(a, NumRegs)]))]

\* pshVal that writes at the old stack pointer and decrements afterwards
pshVal_writesFirst(s, val) ==
    LET s1 == ram_write(s, val, s.reg[SP])
    IN  IF s1.err # "none" THEN s1
        ELSE [s1 EXCEPT !.reg[SP] = PySub(@, I(1))]

pshVal(s, val) ==
    LET s1 == [s EXCEPT !.reg[SP] = PySub(@, I(1))]
    IN  ram_write(s1, val, s1.reg[SP])

psh(s, a, b) ==
    IF IndexErr(a, NumRegs) # "none" THEN Raise(s, IndexErr(a, NumRegs))
    ELSE pshVal(s, s.reg[At(a, NumRegs)])

\* popVal that increments the stack pointer before it reads
popVal_incrementsFirst(s) ==
    LET s1 == [s EXCEPT !.reg[SP] = PyAdd(@, I(1))]
    IN  IF IndexErr(s1.reg[SP], RamSize) # "none"
        THEN [val |-> Unbound, s |-> Raise(s1, IndexErr(s1.reg[SP], RamSize))]
        ELSE [val |-> ram_read(s1, s1.reg[SP]), s |-> s1]

\* the value popVal returns and the state it leaves
popVal(s) ==
    IF IndexErr(s.reg[SP], RamSize) # "none"
    THEN [val |-> Unbound, s |-> Raise(s, IndexErr(s.reg[SP], RamSize))]
    ELSE [val |-> ram_read(s, s.reg[SP]),
          s |-> [s EXCEPT !.reg[SP] = PyAdd(@, I(1))]]

pop(s, a, b) ==
    LET r == popVal(s)
    IN  IF r.s.err # "none" THEN r.s
        ELSE IF IndexErr(a, NumRegs) # "none" THEN Raise(r.s, IndexErr(a, NumRegs))
        ELSE [r.s EXCEPT !.reg[At(a, NumRegs)] = r.val]

\* call that pushes the address of its own operand byte
call_pushesOperandAddress(s, a, b) ==
    LET s1 == pshVal(s, PyAdd(s.pc, I(1)))
    IN  IF s1.err # "none" THEN s1
        ELSE IF IndexErr(a, NumRegs) # "none" THEN Raise(s1, IndexErr(a, NumRegs))
        ELSE [s1 EXCEPT !.pc = s1.reg[At(a, NumRegs)]]

call(s, a, b) ==
    LET s1 == pshVal(s, PyAdd(s.pc, I(2)))
    IN  IF s1.err # "none" THEN s1
        ELSE IF IndexErr(a, NumRegs) # "none" THEN Raise(s1, IndexErr(a, NumRegs))
        ELSE [s1 EXCEPT !.pc = s1.reg[At(a, NumRegs)]]

ret(s, a, b) ==
    LET r == popVal(s)
    IN  IF r.s.err # "none" THEN r.s
        ELSE [r.s EXCEPT !.pc = r.val]

\* jmp that jumps only when EQ is set
jmp_onlyWhenEqual(s, a, b) ==
    IF BitAnd(s.fl, EQ) # 0 THEN
        IF IndexErr(a, NumRegs) # "none" THEN Raise(s, IndexErr(a, NumRegs))
        ELSE [s EXCEPT !.pc = s.reg[At(a, NumRegs)]]
    ELSE [s EXCEPT !.setsPC = FALSE]

jmp(s, a, b) ==
    IF IndexErr(a, NumRegs) # "none" THEN Raise(s, IndexErr(a, NumRegs))
    ELSE [s EXCEPT !.pc = s.reg[At(a, NumRegs)]]

\* jeq that leaves setsPC set when the branch is not taken
jeq_keepsSetsPC(s, a, b) ==
    IF BitAnd(s.fl, EQ) # 0 THEN
        IF IndexErr(a, NumRegs) # "none" THEN Raise(s, IndexErr(a, NumRegs))
        ELSE [s EXCEPT !.pc = s.reg[At(a, NumRegs)]]
    ELSE s

jeq(s, a, b) ==
    IF BitAnd(s.fl, EQ) # 0 THEN
        IF IndexErr(a, NumRegs) # "none" THEN Raise(s, IndexErr(a, NumRegs))
        ELSE [s EXCEPT !.pc = s.reg[At(a, NumRegs)]]
    ELSE [s EXCEPT !.setsPC = FALSE]

jne(s, a, b) ==
    IF BitAnd(s.fl, EQ) = 0 THEN
        IF IndexErr(a, NumRegs) # "none" THEN Raise(s, IndexErr(a, NumRegs))
        ELSE [s EXCEPT !.pc = s.reg[At(a, NumRegs)]]
    ELSE [s EXCEPT !.setsPC = FALSE]

hlt(s, a, b) == [s EXCEPT !.halted = TRUE]

add(s, a, b) == alu(s, "ADD", a, b)
andd(s, a, b) == alu(s, "AND", a, b)
\* sub with its operands exchanged
sub_swapped(s, a, b) == alu(s, "SUB", b, a)

sub(s, a, b) == alu(s, "SUB", a, b)
\* mul bound to the ALU's addition
mul_adds(s, a, b) == alu(s, "ADD", a, b)

mul(s, a, b) == alu(s, "MUL", a, b)
div(s, a, b) == alu(s, "DIV", a, b)
dec(s, a, b) == alu(s, "DEC", a, None)
inc(s, a, b) == alu(s, "INC", a, None)
orr(s, a, b) == alu(s, "OR", a, b)
xor(s, a, b) == alu(s, "XOR", a, b)
cmp(s, a, b) == alu(s, "CMP", a, b)
\* shl that names an operation the ALU does not know
shl_passesUnknownOp(s, a, b) == alu(s, "SHIFT", a, b)

shl(s, a, b) == alu(s, "SHL", a, b)

\* the handler each wired opcode is bound to
branchtable ==
    (HLT :> "hlt") @@ (LDI :> "ldi") @@ (PRN :> "prn") @@ (MUL :> "mul") @@
    (POP :> "pop") @@ (PSH :> "psh") @@ (CALL :> "call") @@ (RET :> "ret") @@
    (ADD :> "add") @@ (AND :> "andd") @@ (CMP :> "cmp") @@ (DEC :> "dec") @@
    (DIV :> "div") @@ (INC :> "inc") @@ (JEQ :> "jeq") @@ (JMP :> "jmp") @@
    (JNE :> "jne") @@ (OR :> "orr") @@ (SHL :> "shl") @@ (SUB :> "sub") @@
    (XOR :> "xor")

\* ------------------------------------------------------------------------
\* One iteration of run()
\* ------------------------------------------------------------------------
\* fetch the instruction byte and the two bytes after it, decode setsPC
Fetch(s) ==
    LET pc1 == PyAdd(s.pc, I(1))
        pc2 == PyAdd(s.pc, I(2))
        s1 == [s EXCEPT !.ir = ram_read(s, s.pc)]
        s2 == [s1 EXCEPT !.operand_a = ram_read(s, pc1)]
        s3 == [s2 EXCEPT !.operand_b = ram_read(s, pc2)]
    IN  IF IndexErr(s.pc, RamSize) # "none" THEN Raise(s, IndexErr(s.pc, RamSize))
        ELSE IF IndexErr(pc1, RamSize) # "none" THEN Raise(s1, IndexErr(pc1, RamSize))
        ELSE IF IndexErr(pc2, RamSize) # "none" THEN Raise(s2, IndexErr(pc2, RamSize))
        ELSE IF ~IsInt(s3.ir) THEN Raise(s3, "TypeError")
        ELSE [s3 EXCEPT !.setsPC = (((s3.ir.n \div 16) % 2) = 1)]

\* 1 + the operand count in bits 6-7 of the instruction byte
fndInst(i) == ((i.n \div 64) % 4) + 1

\* an unknown byte that also stops the machine
invalid_halts(s) ==
    [s EXCEPT !.out = Append(@, "Invalid instruction " \o PyHex(s.ir.n)
                                  \o " at address " \o PyHex(s.pc.n)),
              !.halted = TRUE]

\* the diagnostic for a byte that is not in the branch table
invalid(s) ==
    [s EXCEPT !.out = Append(@, "Invalid instruction " \o PyHex(s.ir.n)
                                  \o " at address " \o PyHex(s.pc.n))]

\* pc moves on whether or not the instruction set it
Advance_ignoresSetsPC(s) ==
    IF s.err # "none" THEN s
    ELSE [s EXCEPT !.pc = PyAdd(@, I(fndInst(s.ir)))]

\* if the instruction did not set the PC, move to the next instruction
Advance(s) ==
    IF s.err # "none" THEN s
    ELSE IF ~s.setsPC THEN [s EXCEPT !.pc = PyAdd(@, I(fndInst(s.ir)))]
    ELSE s

Fetched == Fetch(cur)

\* a loop that does not test halted
Running_ignoresHalted == err = "none" /\ steps < MaxSteps

\* while not self.halted, and no exception has left run()
Running == ~halted /\ err = "none" /\ steps < MaxSteps

\* the byte at pc is bound to handler h, and fetching raises nothing
Wired(h) ==
    /\ IndexErr(pc, RamSize) = "none"
    /\ At(pc, RamSize) \notin DOMAIN ramf
    /\ ram[At(pc, RamSize)] \in DOMAIN branchtable
    /\ branchtable[ram[At(pc, RamSize)]] = h
    /\ Fetched.err = "none"

\* every number the iteration leaves behind is one the exploration keeps
Kept(s) == \A i \in 0..(NumRegs - 1) : InBounds(s.reg[i])

\* ------------------------------------------------------------------------
\* Stack discipline and history (observers of the run, not CPU fields)
\* ------------------------------------------------------------------------
Front(q) == IF q = <<>> THEN <<>> ELSE SubSeq(q, 1, Len(q) - 1)

\* frames after an iteration that dispatched to handler h and ended in state s:
\* CALL and PSH open a frame, POP and RET close the innermost one; a frame
\* records a POP into register 7 (popsp) and any other instruction (other)
\* that ran while it was open
NextFrames(h, s) ==
    IF s.err # "none" THEN frames
    ELSE IF h = "call" THEN
        Append(frames, [kind |-> "call", ret |-> pc.n + 2, sp |-> reg[SP],
                        popsp |-> FALSE, other |-> FALSE])
    ELSE IF h = "psh" THEN
        Append(frames, [kind |-> "psh", ret |-> 0, sp |-> reg[SP],
                        popsp |-> FALSE, other |-> FALSE])
    ELSE IF h = "pop" THEN
        IF At(s.operand_a, NumRegs) = SP
        THEN [k \in DOMAIN Front(frames) |-> [Front(frames)[k] EXCEPT !.popsp = TRUE]]
        ELSE Front(frames)
    ELSE IF h = "ret" THEN Front(frames)
    ELSE [k \in DOMAIN frames |-> [frames[k] EXCEPT !.other = TRUE]]

\* the iteration that dispatched to h ends in state s
Commit(h, s) ==
    /\ Kept(s)
    /\ pc' = s.pc
    /\ ram' = s.ram
    /\ ramf' = s.ramf
    /\ reg' = s.reg
    /\ halted' = s.halted
    /\ setsPC' = s.setsPC
    /\ fl' = s.fl
    /\ ir' = s.ir
    /\ operand_a' = s.operand_a
    /\ operand_b' = s.operand_b
    /\ out' = s.out
    /\ err' = s.err
    /\ steps' = steps + 1
    /\ hist' = [pc |-> pc, reg |-> reg, fl |-> fl, ir |-> ir, operand_a |-> operand_a,
                operand_b |-> operand_b, out |-> out]
    /\ frames' = NextFrames(h, s)

\* ------------------------------------------------------------------------
\* Programs loaded
\* ------------------------------------------------------------------------
Regs == 0..(NumRegs - 1)
Bytes == 0..255
Vals == {0, 2, 3, 255}

AluOps2 == {ADD, SUB, MUL, DIV, AND, OR, XOR, SHL, CMP}
AluOps1 == {INC, DEC}
JumpOps == {JMP, JEQ, JNE}

\* LDI 0,8; LDI 1,9; MUL 0,1; PRN 0; HLT
MultProgram == <<LDI, 0, 8, LDI, 1, 9, MUL, 0, 1, PRN, 0, HLT>>

\* one byte that is not wired, followed by halts
UnknownPrograms == {<<u, HLT, HLT, HLT, HLT>> : u \in Bytes \ DOMAIN branchtable}

\* one two-register ALU instruction on loaded registers
AluPrograms ==
    {<<LDI, a, x, LDI, b, y, op, a, b, PRN, a, HLT>> :
        a \in Regs, b \in Regs, x \in {2, 255}, y \in {0, 3}, op \in AluOps2}

\* two ALU instructions in a row on registers 0 and 1
ChainPrograms ==
    {<<LDI, 0, x, LDI, 1, y, op1, 0, 1, op2, ab[1], ab[2], PRN, ab[1], HLT>> :
        x \in Vals, y \in Vals, op1 \in AluOps2, op2 \in AluOps2,
        ab \in {<<0, 1>>, <<1, 0>>, <<0, 0>>}}

UnaryPrograms ==
    {<<LDI, a, x, op, a, PRN, a, HLT>> : a \in Regs, x \in Vals, op \in AluOps1}

\* LDI r,v immediately followed by PRN r
PrintPrograms == {<<LDI, r, v, PRN, r, HLT>> : r \in Regs, v \in Bytes}

\* PSH a immediately followed by POP b
StackPrograms ==
    {<<LDI, a, x, PSH, a, POP, b, PRN, b, HLT>> : a \in Regs, b \in Regs, x \in Vals}
    \cup {<<LDI, SP, s, LDI, a, x, PSH, a, POP, b, HLT>> :
            s \in {0, 1, 255}, a \in {0, 7}, b \in {1, 7}, x \in Vals}

\* three pushes in a row from the initial stack pointer
PushPrograms == {<<PSH, a, PSH, b, PSH, SP, HLT>> : a \in {0, SP}, b \in {1, SP}}

\* a call to the subroutine at address 6, whose body is one of a few
SubBodies ==
    {<<>>, <<PSH, 0>>, <<POP, 0>>, <<INC, SP>>, <<LDI, 0, 9>>, <<PSH, 0, POP, SP>>}
    \cup {<<PSH, 0, POP, b>> : b \in Regs}
    \cup {<<PSH, 0, PSH, 1, POP, 2, POP, 3>>, <<LDI, 1, 13, CALL, 1, RET, RET>>}
CallPrograms ==
    {<<LDI, r, 6, CALL, r, HLT>> \o body \o <<RET>> : r \in Regs, body \in SubBodies}

\* a compare followed by a jump through register r
JumpPrograms ==
    {<<LDI, 0, x, LDI, 1, y, CMP, 0, 1, j, r, PRN, 0, HLT>> :
        x \in Vals \cup {11}, y \in Vals \cup {11}, j \in JumpOps, r \in Regs}
    \cup {<<LDI, 0, 253, j, 0>> : j \in JumpOps}

\* a single wired instruction whose operands may name no register
OperandPrograms ==
    {<<op, a, b>> : op \in DOMAIN branchtable, a \in {0, 7, 8, 255}, b \in {0, 8}}

\* uses of a register that holds a float
FloatPrograms ==
    {<<LDI, 0, 3, LDI, 1, 2, DIV, r, 1>> \o use \o <<HLT>> :
        r \in {0, SP},
        use \in {<<JMP, 0>>, <<PSH, 0, RET>>, <<PSH, 0, POP, 2>>, <<PRN, 0>>,
                 <<CALL, 0>>, <<INC, 0, PRN, 0>>, <<CMP, 0, 1, JEQ, 1>>,
                 <<PSH, 1>>, <<POP, 1>>, <<LDI, 2, 244, PSH, 0, JMP, 2>>}}

Programs ==
    {MultProgram} \cup UnknownPrograms \cup AluPrograms \cup ChainPrograms
    \cup UnaryPrograms \cup StackPrograms \cup CallPrograms \cup JumpPrograms
    \cup OperandPrograms \cup FloatPrograms \cup PrintPrograms \cup PushPrograms

\* ------------------------------------------------------------------------
\* The machine
\* ------------------------------------------------------------------------
\* the programs run to the end under fairness: the scenario program, every
\* wired instruction alone, and the jumps to the last cells of memory
ScenarioPrograms ==
    {MultProgram} \cup OperandPrograms \cup {<<LDI, 0, 253, j, 0>> : j \in JumpOps}

\* __init__ followed by load(program), for a program of the given set
InitWith(programs) ==
    /\ pc = I(0)
    /\ \E program \in programs : ram = load(program)
    /\ ramf = NoFloats
    /\ reg = [i \in Regs |-> IF i = SP THEN I(StackInit) ELSE I(0)]
    /\ halted = FALSE
    /\ setsPC = FALSE
    /\ fl = 0
    /\ ir = Unbound
    /\ operand_a = Unbound
    /\ operand_b = Unbound
    /\ out = <<>>
    /\ err = "none"
    /\ steps = 0
    /\ hist = [pc |-> I(0), reg |-> reg, fl |-> 0, ir |-> Unbound, operand_a |-> Unbound,
               operand_b |-> Unbound, out |-> <<>>]
    /\ frames = <<>>

Init == InitWith(Programs)

\* a read of ram fails, or the byte fetched is no integer
RunFault ==
    /\ Running
    /\ \E f \in {Fetched} : f.err # "none" /\ Commit("fault", f)

\* the byte fetched is not in the branch table
RunInvalid ==
    /\ Running
    /\ \E f \in {Fetched} :
        /\ f.err = "none"
        /\ f.ir.n \notin DOMAIN branchtable
        /\ \E t \in {Advance(invalid(f))} : Commit("invalid", t)

\* self.branchtable[ir](operand_a, operand_b): the bound method named h
Handle(h, s, a, b) ==
    CASE h = "hlt" -> hlt(s, a, b)
      [] h = "ldi" -> ldi(s, a, b)
      [] h = "prn" -> prn(s, a, b)
      [] h = "mul" -> mul(s, a, b)
      [] h = "pop" -> pop(s, a, b)
      [] h = "psh" -> psh(s, a, b)
      [] h = "call" -> call(s, a, b)
      [] h = "ret" -> ret(s, a, b)
      [] h = "add" -> add(s, a, b)
      [] h = "andd" -> andd(s, a, b)
      [] h = "cmp" -> cmp(s, a, b)
      [] h = "dec" -> dec(s, a, b)
      [] h = "div" -> div(s, a, b)
      [] h = "inc" -> inc(s, a, b)
      [] h = "jeq" -> jeq(s, a, b)
      [] h = "jmp" -> jmp(s, a, b)
      [] h = "jne" -> jne(s, a, b)
      [] h = "orr" -> orr(s, a, b)
      [] h = "shl" -> shl(s, a, b)
      [] h = "sub" -> sub(s, a, b)
      [] h = "xor" -> xor(s, a, b)

\* the byte fetched is bound to handler h, which is called with the two
\* operand bytes; then pc moves on unless the instruction set it
Dispatch(h) ==
    /\ Wired(h)
    /\ \E f \in {Fetched} :
        \E r \in {Handle(h, f, f.operand_a, f.operand_b)} :
            \E t \in {Advance(r)} : Commit(h, t)

RunHlt == Running /\ Dispatch("hlt")
RunLdi == Running /\ Dispatch("ldi")
RunPrn == Running /\ Dispatch("prn")
RunMul == Running /\ Dispatch("mul")
RunPop == Running /\ Dispatch("pop")
RunPsh == Running /\ Dispatch("psh")
RunCall == Running /\ Dispatch("call")
RunRet == Running /\ Dispatch("ret")
RunAdd == Running /\ Dispatch("add")
RunAnd == Running /\ Dispatch("andd")
RunCmp == Running /\ Dispatch("cmp")
RunDec == Running /\ Dispatch("dec")
RunDiv == Running /\ Dispatch("div")
RunInc == Running /\ Dispatch("inc")
RunJeq == Running /\ Dispatch("jeq")
RunJmp == Running /\ Dispatch("jmp")
RunJne == Running /\ Dispatch("jne")
RunOr == Running /\ Dispatch("orr")
RunShl == Running /\ Dispatch("shl")
RunSub == Running /\ Dispatch("sub")
RunXor == Running /\ Dispatch("xor")

Next ==
    \/ RunFault \/ RunInvalid
    \/ RunHlt \/ RunLdi \/ RunPrn \/ RunMul \/ RunPop \/ RunPsh \/ RunCall
    \/ RunRet \/ RunAdd \/ RunAnd \/ RunCmp \/ RunDec \/ RunDiv \/ RunInc
    \/ RunJeq \/ RunJmp \/ RunJne \/ RunOr \/ RunShl \/ RunSub \/ RunXor

Spec == Init /\ [][Next]_vars

\* run() keeps iterating while the loop condition holds: nothing else runs
\* and nothing suspends it
FairSpec == InitWith(ScenarioPrograms) /\ [][Next]_vars /\ WF_vars(Next)


\* ------------------------------------------------------------------------
\* Properties
\* ------------------------------------------------------------------------
\* the step is one iteration of the loop that ran to its end
Completed == steps' = steps + 1 /\ err' = "none"

\* the last iteration ran to its end
Done == steps > 0 /\ err = "none"

IsReg(v) == IsInt(v) /\ v.n \in Regs

HasFlag(f, mask) == (f \div mask) % 2 = 1

\* C1: an iteration on a byte that is not in the branch table prints the
\* diagnostic with the byte and its address in hex, leaves registers, memory,
\* flags and halted as they were, and moves pc forward by 1 + the operand
\* count in bits 6-7 of the byte.
C1_UnknownOpcodeSkipped ==
    [][(Completed /\ ir'.n \notin DOMAIN branchtable)
        => /\ out' = Append(out, "Invalid instruction " \o PyHex(ir'.n)
                                   \o " at address " \o PyHex(pc.n))
           /\ reg' = reg
           /\ ram' = ram
           /\ ramf' = ramf
           /\ fl' = fl
           /\ halted' = halted
           /\ pc' = I(pc.n + 1 + ((ir'.n \div 64) % 4))]_vars

\* C2 as stated: after JEQ r or JNE r at address p, the branch was taken
\* exactly when the EQ flag matched the instruction's condition; taken, pc is
\* the value of register r; not taken, pc is p + 3.
C2_NotTakenAdvancesThree ==
    (Done /\ ir.n \in {JEQ, JNE} /\ IsReg(operand_a))
        => LET matches == HasFlag(hist.fl, EQ) = (ir.n = JEQ)
           IN  /\ setsPC = matches
               /\ matches => pc = hist.reg[operand_a.n]
               /\ ~matches => pc = I(hist.pc.n + 3)

\* C2 amended: after JEQ r or JNE r at address p, the branch was taken exactly
\* when the EQ flag matched the instruction's condition (EQ set for JEQ, EQ
\* clear for JNE); taken, pc is the value of register r; not taken, pc is
\* p + 2 (the opcode and its one operand byte).
C2_NotTakenAdvancesTwo ==
    (Done /\ ir.n \in {JEQ, JNE} /\ IsReg(operand_a))
        => LET matches == HasFlag(hist.fl, EQ) = (ir.n = JEQ)
           IN  /\ setsPC = matches
               /\ matches => pc = hist.reg[operand_a.n]
               /\ ~matches => pc = I(hist.pc.n + 2)

\* a JEQ that was not taken, after a compare that cleared EQ
C2_Witness ==
    /\ Done
    /\ ir = I(JEQ)
    /\ IsReg(operand_a)
    /\ ~HasFlag(hist.fl, EQ)
    /\ hist.fl # 0
    /\ pc = I(hist.pc.n + 2)

\* C3: the iteration that executes HLT sets halted, and once halted is set
\* nothing changes any more: no instruction is fetched, and pc, registers,
\* memory, flags and output stay as they are.
C3_HaltIsFinal ==
    [][/\ (Completed /\ ir' = I(HLT)) => halted'
       /\ halted => /\ halted'
                    /\ UNCHANGED <<pc, ram, ramf, reg, fl, out, ir, operand_a,
                                   operand_b, steps>>]_vars

\* HLT has executed after something was printed
C3_Witness == halted /\ ir = I(HLT) /\ err = "none" /\ out # <<>>

\* C4 as stated: CALL r at address p pushes p + 2 and sets pc to the value of
\* register r; a RET that closes that CALL's frame after stack operations
\* only sets pc to p + 2 and puts the stack pointer back to its value before
\* the CALL.
C4_RetReturnsAfterAnyStackOps ==
    [][/\ (Completed /\ ir' = I(CALL) /\ IsReg(operand_a'))
            => /\ reg'[SP] = I(reg[SP].n - 1)
               /\ At(reg'[SP], RamSize) \notin DOMAIN ramf'
               /\ ram'[At(reg'[SP], RamSize)] = pc.n + 2
               /\ pc' = reg'[operand_a'.n]
       /\ (/\ Completed
           /\ ir' = I(RET)
           /\ frames # <<>>
           /\ frames[Len(frames)].kind = "call"
           /\ ~frames[Len(frames)].other)
            => /\ pc' = I(frames[Len(frames)].ret)
               /\ reg'[SP] = frames[Len(frames)].sp]_vars

\* C4 amended: CALL r at address p pushes p + 2 and sets pc to the value of
\* register r (for r = 7, the stack pointer as the push left it); a RET that
\* closes that CALL's frame after stack operations only, none of them a POP
\* into register 7 (and fewer than 256 values pushed in between), sets pc to
\* p + 2 and puts the stack pointer back to its value before the CALL.
C4_RetReturnsToCall ==
    [][/\ (Completed /\ ir' = I(CALL) /\ IsReg(operand_a'))
            => /\ reg'[SP] = I(reg[SP].n - 1)
               /\ At(reg'[SP], RamSize) \notin DOMAIN ramf'
               /\ ram'[At(reg'[SP], RamSize)] = pc.n + 2
               /\ pc' = reg'[operand_a'.n]
       /\ (/\ Completed
           /\ ir' = I(RET)
           /\ frames # <<>>
           /\ Len(frames) < RamSize
           /\ frames[Len(frames)].kind = "call"
           /\ ~frames[Len(frames)].other
           /\ ~frames[Len(frames)].popsp)
            => /\ pc' = I(frames[Len(frames)].ret)
               /\ reg'[SP] = frames[Len(frames)].sp]_vars

\* a RET has returned to address 5, behind the CALL at 3, after the
\* subroutine pushed and popped
C4_Witness ==
    /\ Done
    /\ ir = I(RET)
    /\ hist.ir = I(POP)
    /\ frames = <<>>
    /\ pc = I(5)
    /\ reg[SP] = I(StackInit)

\* C5 as stated: PSH a immediately followed by POP b, a and b in 0..7, leaves
\* register b with the value register a had before the PSH and the stack
\* pointer with its value before the PSH.
C5_PushPopRestoresSP ==
    [][(/\ Done
        /\ ir = I(PSH)
        /\ IsReg(operand_a)
        /\ Completed
        /\ ir' = I(POP)
        /\ IsReg(operand_a'))
        => /\ reg'[operand_a'.n] = hist.reg[operand_a.n]
           /\ reg'[SP] = hist.reg[SP]]_vars

\* C5 amended: PSH a immediately followed by POP b, a and b in 0..7, leaves
\* register b with the value register a had before the PSH; the stack pointer
\* is back at its value before the PSH unless b = 7 and a # 7, where register
\* 7 holds the popped value instead.
C5_PushPopRoundTrip ==
    [][(/\ Done
        /\ ir = I(PSH)
        /\ IsReg(operand_a)
        /\ Completed
        /\ ir' = I(POP)
        /\ IsReg(operand_a'))
        => /\ reg'[operand_a'.n] = hist.reg[operand_a.n]
           /\ (operand_a'.n # SP \/ operand_a.n = SP) => reg'[SP] = hist.reg[SP]]_vars

\* register 5 was pushed and popped into register 3
C5_Witness ==
    /\ Done
    /\ ir = I(POP)
    /\ hist.ir = I(PSH)
    /\ hist.operand_a = I(5)
    /\ operand_a = I(3)
    /\ reg[3] = I(255)
    /\ reg[SP] = I(StackInit)

BinaryOps == {ADD, SUB, MUL, AND, OR, XOR, SHL}

\* the documented result of a binary operation on integers x and y
BinaryResult(op, x, y) ==
    CASE op = ADD -> x + y
      [] op = SUB -> x - y
      [] op = MUL -> x * y
      [] op = AND -> BitAnd(x, y)
      [] op = OR -> BitOr(x, y)
      [] op = XOR -> BitXor(x, y)
      [] op = SHL -> IF x = 0 THEN 0 ELSE x * Pow2(y)

\* C6 as stated: ADD, SUB, MUL, AND, OR, XOR, SHL on registers a and b in
\* 0..7 holding integers x and y leave x op y in register a and register b
\* unchanged.
C6_BinaryOpKeepsB ==
    (/\ Done
     /\ ir.n \in BinaryOps
     /\ IsReg(operand_a)
     /\ IsReg(operand_b)
     /\ IsInt(hist.reg[operand_a.n])
     /\ IsInt(hist.reg[operand_b.n]))
        => /\ reg[operand_a.n] =
                I(BinaryResult(ir.n, hist.reg[operand_a.n].n, hist.reg[operand_b.n].n))
           /\ reg[operand_b.n] = hist.reg[operand_b.n]

\* C6 amended: ADD, SUB, MUL, AND, OR, XOR, SHL on registers a and b in 0..7
\* holding integers x and y (y >= 0 for SHL) leave x op y in register a, and
\* leave register b unchanged when b is another register than a.
C6_BinaryOpResult ==
    (/\ Done
     /\ ir.n \in BinaryOps
     /\ IsReg(operand_a)
     /\ IsReg(operand_b)
     /\ IsInt(hist.reg[operand_a.n])
     /\ IsInt(hist.reg[operand_b.n]))
        => /\ reg[operand_a.n] =
                I(BinaryResult(ir.n, hist.reg[operand_a.n].n, hist.reg[operand_b.n].n))
           /\ operand_b.n # operand_a.n => reg[operand_b.n] = hist.reg[operand_b.n]

\* SUB 0,1 has taken 3 from 2
C6_Witness ==
    /\ Done
    /\ ir = I(SUB)
    /\ operand_a = I(0)
    /\ operand_b = I(1)
    /\ hist.reg[0] = I(2)
    /\ hist.reg[1] = I(3)
    /\ reg[0] = I(-1)
    /\ reg[1] = I(3)

\* C7: after CMP a,b exactly one of LT, GT, EQ is set, the one the order of
\* the two register values names, whatever the flags were; no register changes.
C7_CompareSetsOneFlag ==
    (Done /\ ir = I(CMP) /\ IsReg(operand_a) /\ IsReg(operand_b))
        => LET x == hist.reg[operand_a.n]
               y == hist.reg[operand_b.n]
           IN  /\ fl \in {LT, GT, EQ}
               /\ HasFlag(fl, LT) <=> x.n * y.d < y.n * x.d
               /\ HasFlag(fl, GT) <=> x.n * y.d > y.n * x.d
               /\ HasFlag(fl, EQ) <=> x.n * y.d = y.n * x.d
               /\ reg = hist.reg

\* a compare has replaced LT by GT
C7_Witness ==
    /\ Done
    /\ ir = I(CMP)
    /\ IsReg(operand_a)
    /\ IsReg(operand_b)
    /\ hist.fl = LT
    /\ fl = GT

\* C8: the flags differ from what they were before the last iteration only
\* if that iteration executed CMP.
C8_OnlyCompareChangesFlags == fl # hist.fl => ir = I(CMP)

\* a compare has changed the flags
C8_Witness == fl # hist.fl /\ ir = I(CMP) /\ fl = EQ

\* the decimal numeral of a byte
Decimal(v) ==
    IF v < 10 THEN Digit(v)
    ELSE IF v < 100 THEN Digit(v \div 10) \o Digit(v % 10)
    ELSE Digit(v \div 100) \o Digit((v \div 10) % 10) \o Digit(v % 10)

\* C9: LDI r,v immediately followed by PRN r, r in 0..7 and v in 0..255,
\* appends the decimal numeral of v to the output, and nothing else.
C9_LoadThenPrint ==
    (/\ Done
     /\ ir = I(PRN)
     /\ hist.ir = I(LDI)
     /\ IsReg(operand_a)
     /\ hist.operand_a = operand_a
     /\ IsInt(hist.operand_b)
     /\ hist.operand_b.n \in Bytes)
        => out = Append(hist.out, Decimal(hist.operand_b.n))

\* LDI 7,255 then PRN 7 has printed 255
C9_Witness ==
    /\ Done
    /\ ir = I(PRN)
    /\ hist.ir = I(LDI)
    /\ operand_a = I(SP)
    /\ hist.operand_a = I(SP)
    /\ hist.operand_b = I(255)
    /\ out = <<"255">>

\* C10: the program LDI 0,8; LDI 1,9; MUL 0,1; PRN 0; HLT, loaded at address 0
\* of the initial machine, runs to halted with 72 as the only output.
C10_MultProgramPrints72 ==
    (steps = 0 /\ ram = load(MultProgram))
        ~> (halted /\ err = "none" /\ out = <<"72">>)

\* the program has halted behind its HLT at address 11, having printed 72
C10_Witness ==
    /\ halted
    /\ ir = I(HLT)
    /\ pc = I(12)
    /\ reg[0] = I(72)
    /\ out = <<"72">>

\* v is an address of memory: an integer in 0..255
IsAddress(v) == IsInt(v) /\ v.n \in 0..(RamSize - 1)

\* C11: while the loop runs, every memory index the next iteration uses is in
\* 0..255: pc, pc + 1 and pc + 2 of the fetch, the decremented stack pointer
\* PSH and CALL write at, and the stack pointer POP and RET read at.
C11_IndicesInRange ==
    (~halted /\ err = "none")
        => /\ IsAddress(pc)
           /\ IsAddress(PyAdd(pc, I(1)))
           /\ IsAddress(PyAdd(pc, I(2)))
           /\ (/\ Fetched.err = "none"
               /\ \/ Fetched.ir = I(CALL)
                  \/ Fetched.ir = I(PSH) /\ IndexErr(Fetched.operand_a, NumRegs) = "none")
                => IsAddress(PySub(reg[SP], I(1)))
           /\ (Fetched.err = "none" /\ Fetched.ir \in {I(POP), I(RET)})
                => IsAddress(reg[SP])

\* C12: every register holds an integer in 0..255.
C12_RegistersAreBytes == \A i \in Regs : IsInt(reg[i]) /\ reg[i].n \in Bytes

\* C13: after a wired instruction executed at address p, pc is the handler's
\* target when the instruction is CALL, RET, JMP or a taken JEQ/JNE (the
\* register the operand names, read after CALL's push; for RET the value at
\* the stack pointer), and p + 1 + (bits 6-7 of the opcode) otherwise.
C13_PcAfterWiredStep ==
    [][(Completed /\ ir'.n \in DOMAIN branchtable)
        => LET op == ir'.n
               sets == \/ op \in {CALL, RET, JMP}
                       \/ op = JEQ /\ HasFlag(fl, EQ)
                       \/ op = JNE /\ ~HasFlag(fl, EQ)
               target == IF op = RET THEN Cell(cur, At(reg[SP], RamSize))
                         ELSE reg'[At(operand_a', NumRegs)]
           IN  IF sets THEN pc' = target
               ELSE pc' = I(pc.n + 1 + ((op \div 64) % 4))]_vars

\* CALL 7 at address 3 has jumped to the stack pointer its push left
C13_Witness ==
    /\ Done
    /\ ir = I(CALL)
    /\ operand_a = I(SP)
    /\ hist.pc = I(3)
    /\ pc = I(5)
    /\ reg[SP] = I(5)

\* C14: halted is false initially and becomes true only in an iteration that
\* executes HLT.
C14_HaltOnlyByHlt ==
    /\ ~halted
    /\ [][(~halted /\ halted') => (Completed /\ ir' = I(HLT))]_vars

\* the HLT behind a subroutine's RET has halted the machine
C14_Witness == halted /\ ir = I(HLT) /\ hist.ir = I(RET) /\ err = "none"

\* memory after the step, as Cell reads it
After == [ram |-> ram', ramf |-> ramf']

\* what PSH r does, and what n pushes do to the stack pointer
PushEffect ==
    /\ (Completed /\ ir' = I(PSH) /\ IsReg(operand_a'))
        => /\ reg'[SP] = I(reg[SP].n - 1)
           /\ Cell(After, At(reg'[SP], RamSize)) = reg[operand_a'.n]
    /\ (/\ Completed
        /\ frames' # <<>>
        /\ \A k \in DOMAIN frames' :
            frames'[k].kind = "psh" /\ ~frames'[k].other /\ ~frames'[k].popsp
        /\ frames'[1].sp = I(StackInit))
        => reg'[SP] = I(StackInit - Len(frames'))

\* C15 as stated: PSH r decrements the stack pointer by 1 and writes the value
\* register r held to memory at the new stack pointer; POP r leaves the value
\* read at the stack pointer in register r and the stack pointer incremented
\* by 1; n pushes from 0xF4 leave the stack pointer at 0xF4 - n.
C15_PopIncrementsSP ==
    [][/\ PushEffect
       /\ (Completed /\ ir' = I(POP) /\ IsReg(operand_a'))
            => /\ reg'[operand_a'.n] = Cell(cur, At(reg[SP], RamSize))
               /\ reg'[SP] = I(reg[SP].n + 1)]_vars

\* C15 amended: PSH r decrements the stack pointer by 1 and writes the value
\* register r held to memory at the new stack pointer; POP r leaves the value
\* read at the stack pointer in register r and, for r # 7, the stack pointer
\* incremented by 1 (POP 7 leaves the value read in register 7); n pushes
\* from 0xF4 leave the stack pointer at 0xF4 - n.
C15_PushPopEffect ==
    [][/\ PushEffect
       /\ (Completed /\ ir' = I(POP) /\ IsReg(operand_a'))
            => /\ reg'[operand_a'.n] = Cell(cur, At(reg[SP], RamSize))
               /\ operand_a'.n # SP => reg'[SP] = I(reg[SP].n + 1)]_vars

\* three pushes from 0xF4 have left the stack pointer at 0xF1, the last one
\* having pushed register 7
C15_Witness ==
    /\ Done
    /\ ir = I(PSH)
    /\ operand_a = I(SP)
    /\ Len(frames) = 3
    /\ frames[1].sp = I(StackInit)
    /\ reg[SP] = I(StackInit - 3)
    /\ ram[StackInit - 3] = StackInit - 2

\* C16: JMP r, r in 0..7, sets pc to the value register r held whatever the
\* flags are, and leaves registers, memory and flags unchanged.
C16_JmpIsUnconditional ==
    [][(steps' = steps + 1 /\ Fetched.err = "none" /\ Fetched.ir = I(JMP)
            /\ IsReg(Fetched.operand_a))
        => /\ err' = "none"
           /\ pc' = reg[operand_a'.n]
           /\ reg' = reg
           /\ ram' = ram
           /\ ramf' = ramf
           /\ fl' = fl]_vars

\* a JMP has jumped to address 11 while the flags said "less than"
C16_Witness ==
    /\ Done
    /\ ir = I(JMP)
    /\ IsReg(operand_a)
    /\ fl = LT
    /\ pc = I(11)
    /\ pc = reg[operand_a.n]

\* C17: no iteration of run() ends in the ALU's "Unsupported ALU operation"
\* exception: every handler of the branch table names an operation alu knows.
C17_AluOperationKnown == err # "Exception"

\* an XOR, the ALU's last branch, has run after another ALU instruction
C17_Witness ==
    /\ Done
    /\ ir = I(XOR)
    /\ hist.ir = I(SHL)
    /\ reg[0] = I(BitXor(hist.reg[0].n, hist.reg[1].n))

\* C18: a memory cell changes only in an iteration that executes PSH or CALL,
\* and then only the cell at the decremented stack pointer changes.
C18_OnlyPushWritesMemory ==
    [][\A k \in 0..(RamSize - 1) :
          Cell(After, k) # Cell(cur, k)
            => /\ ir' \in {I(PSH), I(CALL)}
               /\ IsInt(reg[SP])
               /\ k = At(PySub(reg[SP], I(1)), RamSize)]_vars

\* the CALL at address 3 has written its return address 5 at 0xF3
C18_Witness ==
    /\ Done
    /\ ir = I(CALL)
    /\ hist.pc = I(3)
    /\ reg[SP] = I(StackInit - 1)
    /\ ram[StackInit - 1] = 5

\* C19: DIV a,b, a and b in 0..7, with register b holding 0 ends run() with
\* an error: halted stays false, registers, memory, flags and pc are as they
\* were before the iteration, and nothing runs afterwards.
C19_DivByZeroAborts ==
    [][/\ (/\ steps' = steps + 1
           /\ Fetched.err = "none"
           /\ Fetched.ir = I(DIV)
           /\ IsReg(Fetched.operand_a)
           /\ IsReg(Fetched.operand_b)
           /\ reg[Fetched.operand_b.n].n = 0)
            => /\ err' = "ZeroDivisionError"
               /\ ~halted'
               /\ UNCHANGED <<reg, ram, ramf, fl, pc>>
       /\ err = "ZeroDivisionError" => UNCHANGED vars]_vars

\* DIV 0,1 has failed with 255 in register 0 and 0 in register 1
C19_Witness ==
    /\ err = "ZeroDivisionError"
    /\ ir = I(DIV)
    /\ operand_a = I(0)
    /\ operand_b = I(1)
    /\ reg[0] = I(255)
    /\ reg[1] = I(0)
    /\ pc = I(6)
    /\ ~halted

====
